---- MODULE Spec2Model ----
(***************************************************************************)
(* csvtojsontree (index.js): the pipeline run by parse() on the rows of a  *)
(* csv file,                                                               *)
(*     cleanTree(makeTree(group(objectify(rows)), 0, n)).                  *)
(*                                                                         *)
(* A JavaScript string is a sequence of one-character strings, so that     *)
(* search(','), split(','), trim() and string concatenation are computed.  *)
(* A JavaScript value is a record with a tag t and one payload field per   *)
(* kind (all fields always present).  An object is the sequence of its     *)
(* own properties in insertion order.  The objects built by group() live   *)
(* in an array (the heap); an array of objects holds their indices, which  *)
(* models sharing by reference.                                            *)
(***************************************************************************)
EXTENDS Integers, Sequences, FiniteSets, TLC

\* ------------------------------------------------------------------ bounds
\* longest row sequence enumerated over RowSet
MaxRows == 2
\* most records of an input built from TreeRows (one row per record)
MaxRecords == 5
\* frames the engine's call stack holds before it throws a RangeError
StackLimit == 12

\* ----------------------------------------------------------------- strings
sEmpty == <<>>
sLevel == <<"l", "e", "v", "e", "l">>
sChildrenKey == <<"c", "h", "i", "l", "d", "r", "e", "n">>
sEmptyKey == <<"e", "m", "p", "t", "y">>
sUndefined == <<"u", "n", "d", "e", "f", "i", "n", "e", "d">>
sNaN == <<"N", "a", "N">>
sObject == <<"[", "o", "b", "j", "e", "c", "t", " ", "O", "b", "j", "e", "c", "t", "]">>
sTrue == <<"t", "r", "u", "e">>

\* ------------------------------------------------------------------ values
Val(t, n, s, a, r) == [t |-> t, n |-> n, s |-> s, a |-> a, r |-> r]
Undef == Val("undef", 0, <<>>, <<>>, <<>>)
NaN == Val("nan", 0, <<>>, <<>>, <<>>)
True == Val("bool", 1, <<>>, <<>>, <<>>)
Num(n) == Val("num", n, <<>>, <<>>, <<>>)
Str(s) == Val("str", 0, s, <<>>, <<>>)
\* an array of strings (the words of a comma separated cell)
Arr(a) == Val("arr", 0, <<>>, a, <<>>)
\* an array of objects, held as references into the heap
Refs(r) == Val("refs", 0, <<>>, <<>>, r)

\* a === b for the operands index.js compares: arrays are compared by
\* identity and every array is compared with a primitive only, NaN equals
\* nothing.
StrictEq(a, b) ==
  /\ a.t = b.t
  /\ a.t \in {"num", "str", "undef", "bool"}
  /\ a.n = b.n
  /\ a.s = b.s

Digits == <<"0", "1", "2", "3", "4", "5", "6", "7", "8", "9">>

RECURSIVE NumToString(_)
NumToString(n) ==
  IF n < 10 THEN <<Digits[n + 1]>>
  ELSE NumToString(n \div 10) \o <<Digits[(n % 10) + 1]>>

RECURSIVE Join(_, _)
\* Array.prototype.join of strings
Join(a, sep) ==
  IF Len(a) = 0 THEN <<>>
  ELSE IF Len(a) = 1 THEN a[1]
  ELSE a[1] \o sep \o Join(Tail(a), sep)

\* ToString(v) of the language, as used for a computed property key and for string + number
JsToString(v) ==
  CASE v.t = "str" -> v.s
    [] v.t = "num" -> NumToString(v.n)
    [] v.t = "undef" -> sUndefined
    [] v.t = "nan" -> sNaN
    [] v.t = "bool" -> sTrue
    [] v.t = "arr" -> Join(v.a, <<",">>)
    [] v.t = "refs" -> Join([i \in 1..Len(v.r) |-> sObject], <<",">>)

\* v + 1
PlusOne(v) ==
  CASE v.t = "num" -> Num(v.n + 1)
    [] v.t = "undef" -> NaN
    [] v.t = "nan" -> NaN
    [] v.t = "bool" -> Num(v.n + 1)
    [] OTHER -> Str(JsToString(v) \o <<"1">>)

\* ----------------------------------------------------------------- objects
\* obj[key]
Get(obj, key) ==
  IF \E i \in 1..Len(obj) : obj[i].k = key
  THEN obj[CHOOSE i \in 1..Len(obj) : obj[i].k = key].v
  ELSE Undef

Has(obj, key) == \E i \in 1..Len(obj) : obj[i].k = key

\* obj[key] = v: an own property keeps its place, a new one goes last
\* (no label of the inputs is an array index, which would be ordered first)
Put(obj, key, v) ==
  IF Has(obj, key)
  THEN [i \in 1..Len(obj) |-> IF obj[i].k = key THEN [k |-> key, v |-> v] ELSE obj[i]]
  ELSE Append(obj, [k |-> key, v |-> v])

\* delete obj[key]
Delete(obj, key) == SelectSeq(obj, LAMBDA p : p.k # key)

RECURSIVE Assign(_, _)
\* Object.assign(target, source)
Assign(target, source) ==
  IF Len(source) = 0 THEN target
  ELSE Assign(Put(target, source[1].k, source[1].v), Tail(source))

\* ------------------------------------------------------------------ cells
\* row[i] (i counted from 0): undefined beyond the row's last cell
Cell(row, i) == IF i >= 0 /\ i < Len(row) THEN Str(row[i + 1]) ELSE Undef

IsSpace(c) == c = " "

RECURSIVE TrimLeft(_)
TrimLeft(s) == IF Len(s) > 0 /\ IsSpace(s[1]) THEN TrimLeft(Tail(s)) ELSE s

RECURSIVE TrimRight(_)
TrimRight(s) ==
  IF Len(s) > 0 /\ IsSpace(s[Len(s)]) THEN TrimRight(SubSeq(s, 1, Len(s) - 1)) ELSE s

\* entry.trim()
Trim(s) == TrimRight(TrimLeft(s))

\* s.search(',') !== -1
HasComma(s) == \E i \in 1..Len(s) : s[i] = ","

RECURSIVE SplitFrom(_, _, _)
\* s.split(','): cur is the piece being read, done the pieces already cut
SplitFrom(s, cur, done) ==
  IF Len(s) = 0 THEN Append(done, cur)
  ELSE IF s[1] = "," THEN SplitFrom(Tail(s), <<>>, Append(done, cur))
  ELSE SplitFrom(Tail(s), Append(cur, s[1]), done)

Split(s) == SplitFrom(s, <<>>, <<>>)

\* ---------------------------------------------------------------- findLevel
RECURSIVE findLevelFrom(_, _)
findLevelFrom(row, level) ==
  IF StrictEq(Cell(row, level), Str(sEmpty)) THEN findLevelFrom(row, level + 1) ELSE level

findLevel(row) == findLevelFrom(row, 0)

\* ----------------------------------------------------------------- rowEmpty
rowEmpty(row) == \A i \in 1..Len(row) : row[i] = sEmpty

\* ---------------------------------------------------------------- objectify
\* the object pushed for one non-empty row whose cell after the label exists
rowObject(row) ==
  LET level == findLevel(row)
      label == row[level + 1]
      next == row[level + 2]
      children == IF next = sEmpty THEN label ELSE sEmpty
      value == IF HasComma(next)
               THEN Arr([i \in 1..Len(Split(next)) |-> Trim(Split(next)[i])])
               ELSE Str(next)
  IN Put(Put(Put(<<>>, sLevel, Num(level)), sChildrenKey, Str(children)), label, value)

\* row[level + 1].search(...) on a row that ends with its label: the cell
\* is undefined and the call throws
rowThrows(row) == ~rowEmpty(row) /\ Cell(row, findLevel(row) + 1).t = "undef"

objectify(rows) ==
  IF \E i \in 1..Len(rows) : rowThrows(rows[i])
  THEN [err |-> "TypeError", result |-> <<>>]
  ELSE [err |-> "",
        result |-> [i \in 1..Len(rows) |->
                      IF rowEmpty(rows[i])
                      THEN <<[k |-> sEmptyKey, v |-> True]>>
                      ELSE rowObject(rows[i])]]

\* -------------------------------------------------------------------- group
RECURSIVE groupKeepsBody(_, _, _, _)
\* group without "body = {}": the rows after a separator pile onto the
\* rows before it
groupKeepsBody(rowObjs, i, body, result) ==
  IF i > Len(rowObjs) THEN Append(result, body)
  ELSE IF StrictEq(Get(rowObjs[i], sEmptyKey), True)
       THEN groupKeepsBody(rowObjs, i + 1, body, Append(result, body))
       ELSE groupKeepsBody(rowObjs, i + 1, Assign(body, rowObjs[i]), result)

RECURSIVE groupFrom(_, _, _, _)
\* the for loop of group and the push after it
groupFrom(rowObjs, i, body, result) ==
  IF i > Len(rowObjs) THEN Append(result, body)
  ELSE IF StrictEq(Get(rowObjs[i], sEmptyKey), True)
       THEN groupFrom(rowObjs, i + 1, <<>>, Append(result, body))
       ELSE groupFrom(rowObjs, i + 1, Assign(body, rowObjs[i]), result)

group(rowObjs) == groupFrom(rowObjs, 1, <<>>, <<>>)

\* ----------------------------------------------------------------- makeTree
\* annotatedRows[i], i counted from 0
At(h, i) == h[i + 1]

RECURSIVE scanAnyDeeper(_, _, _, _, _)
\* the loop with "level >= level + 1" as its test: every deeper record
\* counts as a child
scanAnyDeeper(h, i, end, level, st) ==
  IF i >= end THEN st
  ELSE IF /\ Get(At(h, i), sLevel).t = "num"
          /\ PlusOne(level).t = "num"
          /\ Get(At(h, i), sLevel).n >= PlusOne(level).n
       THEN scanAnyDeeper(h, i + 1, end, level,
                          [children |-> Append(st.children, i),
                           pairs |-> Append(st.pairs, [begin |-> st.newEnd, end |-> i]),
                           newBegin |-> st.newEnd,
                           newEnd |-> i])
       ELSE scanAnyDeeper(h, i + 1, end, level, st)

RECURSIVE scan(_, _, _, _, _)
\* the for loop of makeTree; st holds children, pairs, newBegin, newEnd
scan(h, i, end, level, st) ==
  IF i >= end THEN st
  ELSE IF StrictEq(Get(At(h, i), sLevel), PlusOne(level))
       THEN scan(h, i + 1, end, level,
                 [children |-> Append(st.children, i),
                  pairs |-> Append(st.pairs, [begin |-> st.newEnd, end |-> i]),
                  newBegin |-> st.newEnd,
                  newEnd |-> i])
       ELSE scan(h, i + 1, end, level, st)

\* the pairs without the range of the last child
recursionPairsNoLast(st, end) == IF Len(st.pairs) = 0 THEN <<>> ELSE Tail(st.pairs)

\* pairs.shift(); pairs.push(lastone)
recursionPairs(st, end) ==
  Append(IF Len(st.pairs) = 0 THEN <<>> ELSE Tail(st.pairs),
         [begin |-> st.newEnd, end |-> end])

RECURSIVE makeTree(_, _, _, _)
RECURSIVE forEachPair(_, _, _)
\* makeTree(annotatedRows, begin, end) called with depth frames below it:
\* err, the array after the call, and the value returned (ret = -1: null,
\* otherwise the index of the root object)
makeTree(h, begin, end, depth) ==
  IF depth >= StackLimit THEN [err |-> "RangeError", h |-> h, ret |-> -1]
  ELSE
    LET root == At(h, begin)
        level == Get(root, sLevel)
        childrenField == Get(root, sChildrenKey)
    IN IF StrictEq(childrenField, Str(sEmpty)) THEN [err |-> "", h |-> h, ret |-> -1]
       ELSE
         LET st == scan(h, begin, end, level,
                        [children |-> <<>>, pairs |-> <<>>,
                         newBegin |-> begin, newEnd |-> begin])
             h1 == [h EXCEPT ![begin + 1] =
                      Put(root, JsToString(childrenField), Refs(st.children))]
             rec == forEachPair([err |-> "", h |-> h1, ret |-> -1],
                                recursionPairs(st, end), depth + 1)
         IN [err |-> rec.err, h |-> rec.h, ret |-> begin]

forEachPair(acc, pairs, depth) ==
  IF acc.err # "" \/ Len(pairs) = 0 THEN acc
  ELSE forEachPair(makeTree(acc.h, pairs[1].begin, pairs[1].end, depth),
                   Tail(pairs), depth)

\* ---------------------------------------------------------------- cleanTree
RECURSIVE cleanTree(_, _)
RECURSIVE forEachChild(_, _)
\* cleanTree(root) for root = the object at index ref, or null (ref = -1)
cleanTree(h, ref) ==
  IF ref = -1 THEN [err |-> "TypeError", h |-> h]
  ELSE
    LET o1 == Delete(At(h, ref), sLevel)
        h1 == [h EXCEPT ![ref + 1] = o1]
        c == Get(o1, sChildrenKey)
        list == Get(o1, JsToString(c))
        walked ==
          IF StrictEq(c, Str(sEmpty)) THEN [err |-> "", h |-> h1]
          ELSE IF list.t = "refs" THEN forEachChild([err |-> "", h |-> h1], list.r)
          ELSE IF list.t = "arr" /\ Len(list.a) = 0 THEN [err |-> "", h |-> h1]
          ELSE [err |-> "TypeError", h |-> h1]
    IN IF walked.err # "" THEN walked
       ELSE [err |-> "",
             h |-> [walked.h EXCEPT ![ref + 1] = Delete(walked.h[ref + 1], sChildrenKey)]]

forEachChild(acc, refs) ==
  IF acc.err # "" \/ Len(refs) = 0 THEN acc
  ELSE forEachChild(cleanTree(acc.h, refs[1]), Tail(refs))

\* ---------------------------------------------------------- the tree value
RECURSIVE Node(_, _)
\* the object at index ref with every array of objects written out
Node(h, ref) ==
  LET obj == At(h, ref)
  IN [i \in 1..Len(obj) |->
        [k |-> obj[i].k,
         v |-> IF obj[i].v.t = "refs"
               THEN Refs([j \in 1..Len(obj[i].v.r) |-> Node(h, obj[i].v.r[j])])
               ELSE obj[i].v]]

\* -------------------------------------------------------------------- parse
\* lines 251-254 of parse(): the outcome for the rows the csv reader hands
\* over, the resolved tree written out
parse(rs) ==
  LET o == objectify(rs)
      g == group(o.result)
      m == makeTree(g, 0, Len(g), 0)
      c == cleanTree(m.h, m.ret)
  IN IF o.err # "" THEN [err |-> o.err, tree |-> <<>>]
     ELSE IF m.err # "" THEN [err |-> m.err, tree |-> <<>>]
     ELSE IF c.err # "" THEN [err |-> c.err, tree |-> <<>>]
     ELSE [err |-> "", tree |-> Node(c.h, m.ret)]

\* ------------------------------------------------------------------ inputs
sRoot == <<"R", "o", "o", "t">>
sName == <<"n", "a", "m", "e">>
sChildren == <<"C", "h", "i", "l", "d", "r", "e", "n">>
sChild1 == <<"C", "h", "i", "l", "d", "1">>
sChild2 == <<"C", "h", "i", "l", "d", "2">>
sChild11 == sChild1 \o <<".", "1">>
sChild12 == sChild1 \o <<".", "2">>
sChild13 == sChild1 \o <<".", "3">>
sChild21 == sChild2 \o <<".", "1">>
sChild22 == sChild2 \o <<".", "2">>
sChild23 == sChild2 \o <<".", "3">>
sA == <<"a">>
sB == <<"b">>
sK == <<"K">>
sN == <<"n">>
sX == <<"x">>
sWords == <<"x", ",", " ", "y">>

Separator == <<sEmpty, sEmpty, sEmpty, sEmpty>>

\* the rows of the README's csv after its header line
ReadmeRows ==
  << <<sRoot, sName, sEmpty, sEmpty>>,
     <<sChildren, sEmpty, sEmpty, sEmpty>>,
     Separator,
     <<sEmpty, sChild1, sName, sEmpty>>,
     <<sEmpty, sChildren, sEmpty, sEmpty>>,
     Separator,
     <<sEmpty, sEmpty, sChild11, sName>>,
     Separator,
     <<sEmpty, sEmpty, sChild12, sName>>,
     Separator,
     <<sEmpty, sEmpty, sChild13, sName>>,
     Separator,
     <<sEmpty, sChild2, sName, sEmpty>>,
     <<sEmpty, sChildren, sEmpty, sEmpty>>,
     Separator,
     <<sEmpty, sEmpty, sChild21, sName>>,
     Separator,
     <<sEmpty, sEmpty, sChild22, sName>>,
     Separator,
     <<sEmpty, sEmpty, sChild23, sName>> >>

\* rows of every shape objectify distinguishes, rows that end with their
\* label and the labels that are also bookkeeping keys included
RowSet ==
  { <<sEmpty, sEmpty, sEmpty>>,
    <<sA, sN, sEmpty>>,
    <<sK, sEmpty, sEmpty>>,
    <<sEmpty, sK, sEmpty>>,
    <<sEmpty, sB, sN>>,
    <<sA, sWords, sEmpty>>,
    <<sA>>,
    <<sEmpty, sA>>,
    <<sLevel, sX, sEmpty>>,
    <<sChildrenKey, sX, sEmpty>>,
    <<sEmptyKey, sX, sEmpty>> }

\* one row per record; every input built from them starts with a root that
\* declares children
TreeRoot == <<sK, sEmpty, sEmpty, sEmpty>>
TreeRows ==
  { <<sEmpty, sK, sEmpty, sEmpty>>,
    <<sEmpty, sA, sN, sEmpty>>,
    <<sEmpty, sEmpty, sA, sN>>,
    <<sEmpty, sEmpty, sB, sN>>,
    <<sEmpty, sEmpty, sK, sEmpty>>,
    <<sEmpty, sEmpty, sEmpty, sA, sN>>,
    Separator }

SeqsUpTo(S, n) == UNION {[1..m -> S] : m \in 0..n}

\* a separator row between every two rows of rs
Interleave(rs) ==
  [i \in 1..(IF Len(rs) = 0 THEN 0 ELSE 2 * Len(rs) - 1) |->
     IF i % 2 = 1 THEN rs[(i + 1) \div 2] ELSE Separator]

Inputs ==
  {ReadmeRows}
    \cup SeqsUpTo(RowSet, MaxRows)
    \cup {Interleave(<<TreeRoot>> \o rs) : rs \in SeqsUpTo(TreeRows, MaxRecords - 1)}

\* ------------------------------------------------------------------- state
VARIABLES
  pc,             \* the stage parse() has completed
  rows,           \* the rows collected from the csv reader
  rowObjs,        \* objectify(rows)
  annotatedRows,  \* the array group() returned; its objects are mutated in place
  tree,           \* what makeTree returned: an index into annotatedRows, -1 for null
  resolved,       \* the tree parse() resolves with, written out
  err             \* the exception that ended the run, "" if none

vars == <<pc, rows, rowObjs, annotatedRows, tree, resolved, err>>

Init ==
  /\ rows \in Inputs
  /\ pc = "rows"
  /\ rowObjs = <<>>
  /\ annotatedRows = <<>>
  /\ tree = -1
  /\ resolved = <<>>
  /\ err = ""

Objectify ==
  /\ pc = "rows"
  /\ LET o == objectify(rows)
     IN /\ rowObjs' = o.result
        /\ err' = o.err
        /\ pc' = IF o.err = "" THEN "objectified" ELSE "failed"
  /\ UNCHANGED <<rows, annotatedRows, tree, resolved>>

Group ==
  /\ pc = "objectified"
  /\ annotatedRows' = group(rowObjs)
  /\ pc' = "grouped"
  /\ UNCHANGED <<rows, rowObjs, tree, resolved, err>>

MakeTree ==
  /\ pc = "grouped"
  /\ LET m == makeTree(annotatedRows, 0, Len(annotatedRows), 0)
     IN /\ annotatedRows' = m.h
        /\ tree' = m.ret
        /\ err' = m.err
        /\ pc' = IF m.err = "" THEN "built" ELSE "failed"
  /\ UNCHANGED <<rows, rowObjs, resolved>>

CleanTree ==
  /\ pc = "built"
  /\ LET c == cleanTree(annotatedRows, tree)
     IN /\ annotatedRows' = c.h
        /\ err' = c.err
        /\ pc' = IF c.err = "" THEN "done" ELSE "failed"
        /\ resolved' = IF c.err = "" THEN Node(c.h, tree) ELSE <<>>
  /\ UNCHANGED <<rows, rowObjs, tree>>

\* the finalizer applied to the tree it produced
CleanTreeAgain ==
  /\ pc = "done"
  /\ LET c == cleanTree(annotatedRows, tree)
     IN /\ annotatedRows' = c.h
        /\ err' = c.err
        /\ pc' = "cleanedTwice"
  /\ UNCHANGED <<rows, rowObjs, tree, resolved>>

Next == Objectify \/ Group \/ MakeTree \/ CleanTree \/ CleanTreeAgain

Spec == Init /\ [][Next]_vars

\* ============================================================ properties
\* the maximal runs of non-separator rows, in order (one per record)
RECURSIVE RunsFrom(_, _, _, _)
RunsFrom(rs, i, cur, done) ==
  IF i > Len(rs) THEN Append(done, cur)
  ELSE IF rowEmpty(rs[i]) THEN RunsFrom(rs, i + 1, <<>>, Append(done, cur))
  ELSE RunsFrom(rs, i + 1, Append(cur, rs[i]), done)

Runs(rs) == RunsFrom(rs, 1, <<>>, <<>>)

LabelOf(row) == row[findLevel(row) + 1]
\* a row whose label has no paired value
IsDeclaration(row) == ~rowEmpty(row) /\ Cell(row, findLevel(row) + 1) = Str(sEmpty)
\* a row that ends with its label
IsShort(row) == ~rowEmpty(row) /\ Len(row) < findLevel(row) + 2
BookkeepingKeys == {sLevel, sChildrenKey, sEmptyKey}
OrdinaryLabels(rs) ==
  \A i \in 1..Len(rs) : ~rowEmpty(rs[i]) => LabelOf(rs[i]) \notin BookkeepingKeys

LevelOf(rec) == Get(rec, sLevel)
ChildrenLabelOf(rec) == Get(rec, sChildrenKey)
HasChildrenLabel(rec) == ChildrenLabelOf(rec).t = "str" /\ ChildrenLabelOf(rec).s # sEmpty
\* the children list attached to a record, empty if none is attached
ChildrenList(rec) ==
  IF HasChildrenLabel(rec) /\ Get(rec, ChildrenLabelOf(rec).s).t = "refs"
  THEN Get(rec, ChildrenLabelOf(rec).s).r
  ELSE <<>>

\* ----------------------------------------------------------------------- C1
Leaf(label) == <<[k |-> label, v |-> Str(sName)]>>
Inner(label, kids) == <<[k |-> label, v |-> Str(sName)], [k |-> sChildren, v |-> Refs(kids)]>>
\* the JSON of the README
ReadmeTree ==
  Inner(sRoot,
        << Inner(sChild1, <<Leaf(sChild11), Leaf(sChild12), Leaf(sChild13)>>),
           Inner(sChild2, <<Leaf(sChild21), Leaf(sChild22), Leaf(sChild23)>>) >>)

\* C1: on the 20 rows of the README's csv the pipeline raises no error and
\* resolves with exactly the README's tree: the same keys in the same
\* order in every node, and neither 'level' nor 'children' anywhere.
C1_ReadmeExample ==
  rows = ReadmeRows =>
    /\ pc # "failed"
    /\ pc = "done" => resolved = ReadmeTree

C1_Witness == rows = ReadmeRows /\ pc = "done" /\ resolved = ReadmeTree

\* ----------------------------------------------------------------------- C2
\* no record of annotatedRows[begin .. end-1] is one level below the record at begin
NoChildInRange(h, begin, end) ==
  /\ LevelOf(At(h, begin)).t = "num"
  /\ \A i \in begin..(end - 1) :
       ~StrictEq(LevelOf(At(h, i)), Num(LevelOf(At(h, begin)).n + 1))

\* C2: when the record at begin has a children label and no record of the
\* range is one level below it, makeTree(annotatedRows, begin, end)
\* completes without an error and leaves the empty list under the
\* children label (stated of the call parse() makes, begin = 0, end = n).
C2_NoChildCompletes ==
  [][(/\ pc = "grouped"
      /\ HasChildrenLabel(annotatedRows[1])
      /\ NoChildInRange(annotatedRows, 0, Len(annotatedRows)))
     => (/\ pc' = "built"
         /\ err' = ""
         /\ Get(annotatedRows'[1], ChildrenLabelOf(annotatedRows[1]).s) = Refs(<<>>))]_vars

\* ----------------------------------------------------------------------- C3
\* C3: on zero rows the run ends in the error EmptyInputError: it returns
\* no tree and fails in no other way.
C3_EmptyInputError ==
  (rows = <<>> /\ pc \in {"built", "done", "cleanedTwice", "failed"})
    => (pc = "failed" /\ err = "EmptyInputError")

\* ----------------------------------------------------------------------- C4
\* what the classifier yields for a row with no paired value
NoPairedValue(row) ==
  <<[k |-> sLevel, v |-> Num(findLevel(row))],
    [k |-> sChildrenKey, v |-> Str(LabelOf(row))],
    [k |-> LabelOf(row), v |-> Str(sEmpty)]>>

\* C4: objectify raises no error on a row that ends with its label and
\* classifies it as a row with no paired value: depth = the label's
\* index, children label = the label, empty value.
C4_ShortRowIsDeclaration ==
  pc # "rows" =>
    \A i \in 1..Len(rows) :
      IsShort(rows[i]) =>
        /\ err # "TypeError"
        /\ Len(rowObjs) = Len(rows)
        /\ rowObjs[i] = NoPairedValue(rows[i])

\* ----------------------------------------------------------------------- C5
\* C5: when the record at begin has the empty children label, makeTree
\* returns that record itself and changes nothing (stated of the call
\* parse() makes); so a single leaf row resolves with its one-key node.
C5_LeafReturned ==
  [][(pc = "grouped" /\ StrictEq(ChildrenLabelOf(annotatedRows[1]), Str(sEmpty)))
     => (/\ pc' = "built"
         /\ tree' = 0
         /\ annotatedRows' = annotatedRows)]_vars

\* ----------------------------------------------------------------------- C6
DeclarationLabels(run) ==
  {LabelOf(run[i]) : i \in {j \in 1..Len(run) : IsDeclaration(run[j])}}

\* C6: a record's depth is the depth of the first row merged into it, and
\* a record that contains a declaration row has that row's label as its
\* children label, wherever the paired-value rows stand (stated for rows
\* whose labels are not bookkeeping keys, which are the case of C10).
C6_BookkeepingNotErased ==
  (pc = "grouped" /\ OrdinaryLabels(rows)) =>
    \A j \in 1..Len(annotatedRows) :
      LET run == Runs(rows)[j]
          rec == annotatedRows[j]
      IN Len(run) > 0 =>
           /\ LevelOf(rec) = Num(findLevel(run[1]))
           /\ DeclarationLabels(run) # {} =>
                \E l \in DeclarationLabels(run) : ChildrenLabelOf(rec) = Str(l)

\* ----------------------------------------------------------------------- C7
\* C7: cleanTree applied to a tree cleanTree produced raises no error and
\* returns an equal tree.
C7_CleanTreeIdempotent ==
  pc = "cleanedTwice" => (err = "" /\ Node(annotatedRows, tree) = resolved)

\* ----------------------------------------------------------------------- C8
IsEmptyRecord(rec) == Len(rec) = 0
IsNode(rec) == ~IsEmptyRecord(rec) /\ LevelOf(rec).t = "num"
Depth(rec) == LevelOf(rec).n
\* indices (from 0) of the non-empty records before / after i
NodesBefore(h, i) == {j \in 0..(i - 1) : ~IsEmptyRecord(At(h, j))}
NodesAfter(h, i) == {j \in (i + 1)..(Len(h) - 1) : ~IsEmptyRecord(At(h, j))}
Max(S) == CHOOSE x \in S : \A y \in S : y <= x
Min(S) == CHOOSE x \in S : \A y \in S : x <= y
\* record i is followed by deeper records before its next same-or-shallower one
HasDeeper(h, i) ==
  NodesAfter(h, i) # {} /\ Depth(At(h, Min(NodesAfter(h, i)))) > Depth(At(h, i))

WellFormed(h) ==
  /\ Len(h) > 0
  /\ IsNode(At(h, 0))
  /\ \A i \in 1..(Len(h) - 1) :
       ~IsEmptyRecord(At(h, i)) =>
         /\ IsNode(At(h, i))
         /\ Depth(At(h, i)) > Depth(At(h, 0))
         /\ Depth(At(h, i)) <= Depth(At(h, Max(NodesBefore(h, i)))) + 1
  /\ \A i \in 0..(Len(h) - 1) :
       ~IsEmptyRecord(At(h, i)) =>
         /\ ChildrenLabelOf(At(h, i)).t = "str"
         /\ ChildrenLabelOf(At(h, i)).s \notin BookkeepingKeys
         /\ HasChildrenLabel(At(h, i)) <=> HasDeeper(h, i)

\* the nearest record before j that is one level above it
ParentOf(h, j) ==
  Max({i \in NodesBefore(h, j) : Depth(At(h, i)) = Depth(At(h, j)) - 1})

Ascending(list) == \A a, b \in 1..Len(list) : a < b => list[a] < list[b]

\* C8: on a well-formed record sequence makeTree(records, 0, n) completes,
\* and afterwards every non-root record is in the children list of the
\* nearest preceding record one level above it, once, and in no other
\* list; every children list is in ascending record order.
C8_ChildrenUnderParent ==
  /\ (pc = "grouped" /\ WellFormed(annotatedRows)) =>
       makeTree(annotatedRows, 0, Len(annotatedRows), 0).err = ""
  /\ (pc = "built" /\ WellFormed(annotatedRows)) =>
       /\ HasChildrenLabel(At(annotatedRows, 0)) => tree = 0
       /\ \A i \in 0..(Len(annotatedRows) - 1) :
            Ascending(ChildrenList(At(annotatedRows, i)))
       /\ \A j \in 1..(Len(annotatedRows) - 1) :
            ~IsEmptyRecord(At(annotatedRows, j)) =>
              \A i \in 0..(Len(annotatedRows) - 1) :
                (\E p \in 1..Len(ChildrenList(At(annotatedRows, i))) :
                   ChildrenList(At(annotatedRows, i))[p] = j)
                  <=> i = ParentOf(annotatedRows, j)

\* a tree of two levels in which each of two parents has children
C8_Witness ==
  /\ pc = "built"
  /\ WellFormed(annotatedRows)
  /\ Len(ChildrenList(At(annotatedRows, 0))) = 2
  /\ \A p \in 1..2 :
       Len(ChildrenList(At(annotatedRows, ChildrenList(At(annotatedRows, 0))[p]))) >= 1

\* ----------------------------------------------------------------------- C9
SeparatorOfWidth(w) == [i \in 1..w |-> sEmpty]
InsertAt(rs, p, row) == SubSeq(rs, 1, p) \o <<row>> \o SubSeq(rs, p + 1, Len(rs))
\* rs with one more separator row next to a separator row or after the last row
MoreSeparators(rs) ==
  {InsertAt(rs, p, SeparatorOfWidth(Len(rs[1]))) :
     p \in {q \in 0..Len(rs) :
              \/ q = Len(rs)
              \/ (q >= 1 /\ rowEmpty(rs[q]))
              \/ (q < Len(rs) /\ rowEmpty(rs[q + 1]))}}

RECURSIVE NoEmptyNode(_)
NoEmptyNode(node) ==
  /\ Len(node) > 0
  /\ \A i \in 1..Len(node) :
       node[i].v.t = "refs" =>
         \A j \in 1..Len(node[i].v.r) : NoEmptyNode(node[i].v.r[j])

\* C9: when the first row is a content row, one more separator row next
\* to a separator row or after the last row changes nothing: the run on
\* the longer input resolves with the same tree, and no node of the tree
\* is an empty record; a run that fails fails in the same way on the
\* longer input.
C9_SeparatorRobust ==
  /\ (pc = "built" /\ Len(rows) > 0 /\ ~rowEmpty(rows[1])) =>
       \A i \in 1..Len(annotatedRows) :
         \A k \in 1..Len(annotatedRows[i]) :
           \A j \in 1..Len(annotatedRows[i][k].v.r) :
             ~IsEmptyRecord(At(annotatedRows, annotatedRows[i][k].v.r[j]))
  /\ (pc = "done" /\ Len(rows) > 0 /\ ~rowEmpty(rows[1])) =>
       /\ NoEmptyNode(resolved)
       /\ \A longer \in MoreSeparators(rows) : parse(longer) = [err |-> "", tree |-> resolved]
  /\ (pc = "failed" /\ Len(rows) > 0 /\ ~rowEmpty(rows[1])) =>
       \A longer \in MoreSeparators(rows) : parse(longer) = [err |-> err, tree |-> <<>>]

\* a run that resolves with a tree although its input has two separator
\* rows in a row, for which group emitted an empty record
C9_Witness ==
  /\ pc = "done"
  /\ ~rowEmpty(rows[1])
  /\ \E i \in 1..(Len(rows) - 1) : rowEmpty(rows[i]) /\ rowEmpty(rows[i + 1])
  /\ \E i \in 1..Len(annotatedRows) : IsEmptyRecord(annotatedRows[i])
  /\ \E i \in 1..Len(resolved) : resolved[i].v.t = "refs" /\ Len(resolved[i].v.r) >= 1

\* ---------------------------------------------------------------------- C10
RECURSIVE Reach(_, _)
\* the indices of the records of the tree rooted at ref
Reach(h, ref) ==
  {ref} \cup UNION {UNION {Reach(h, At(h, ref)[i].v.r[j]) : j \in 1..Len(At(h, ref)[i].v.r)} :
                      i \in 1..Len(At(h, ref))}

\* C10: whatever the label of a content row, its record keeps a real depth
\* (the depth of one of its rows) and a real children label (the label of
\* one of its declaration rows, or none) while the tree is built, and the
\* node made of the record has the label as a key.
C10_LabelsDoNotInterfere ==
  /\ pc = "grouped" =>
       \A j \in 1..Len(annotatedRows) :
         LET run == Runs(rows)[j]
             rec == annotatedRows[j]
         IN Len(run) > 0 =>
              /\ \E i \in 1..Len(run) : LevelOf(rec) = Num(findLevel(run[i]))
              /\ \/ ChildrenLabelOf(rec) = Str(sEmpty)
                 \/ \E l \in DeclarationLabels(run) : ChildrenLabelOf(rec) = Str(l)
  /\ pc = "done" =>
       \A j \in Reach(annotatedRows, tree) :
         \A i \in 1..Len(Runs(rows)[j + 1]) :
           Has(At(annotatedRows, j), LabelOf(Runs(rows)[j + 1][i]))
====
